---- MODULE Spec2Model ----
(***************************************************************************)
(* Model of the Tango gateway server, src/tangogateway.py.                 *)
(*                                                                         *)
(* The gateway runs on one asyncio event loop.  A root listener hands      *)
(* every accepted client to inspect(), which connects to the Tango         *)
(* database and runs two inspect_pipe tasks; read_frame() rewrites the IOR *)
(* of NoException Replies and binds one dynamic listener per backend key   *)
(* (loop.forward_dict).  A dynamic listener hands every accepted client to *)
(* forward(), which connects to the backend and runs two forward_pipe      *)
(* tasks.                                                                  *)
(*                                                                         *)
(* The source file has two missing commas (lines 69, 127), four names that *)
(* are never bound (message_type l.49, repy_header/reply_header l.53-54,   *)
(* server_reader l.87) and passes the split Tango host as one argument     *)
(* (l.89).  The model reads them as the names the surrounding lines define *)
(* (header.message_type, reply_header, client_reader) and as a connection  *)
(* to the Tango host; every other line is modelled as written.             *)
(*                                                                         *)
(* Three specifications share the state: Spec is the gateway while        *)
(* run_forever serves; LifeSpec adds the KeyboardInterrupt and the         *)
(* shutdown of lines 112-120; FrameSpec is read_frame alone on a stream    *)
(* whose octets arrive in chunks of any length (the other two deliver      *)
(* whole frames).                                                          *)
(*                                                                         *)
(* An action is one run of a coroutine between two suspension points of    *)
(* the event loop.  StreamReader.read() does not suspend when the buffer   *)
(* holds data; asyncio.start_server and asyncio.open_connection always do. *)
(* The giop module is not part of src/; its functions are modelled from    *)
(* their description.                                                      *)
(***************************************************************************)
EXTENDS Integers, Sequences, FiniteSets, TLC

(***************************************************************************)
(* Bounds of the model.                                                    *)
(***************************************************************************)
\* The number of things the peers of the gateway do: connect, send a
\* message, close their end, reset the connection.
MaxEvents == 4

\* A connection is accepted when a peer connects.
Conns == 1..MaxEvents
Dirs == {"up", "down"}

(***************************************************************************)
(* Python values.  A value carries its type, so that a value of the wrong  *)
(* type in a field stays comparable.                                       *)
(***************************************************************************)
PyBytes(s) == <<"bytes", s>>
PyInt(n) == <<"int", n>>

NUL == "NUL"
bind_address == <<"g", "w">>
tango_host == <<<<"d", "b">>, 10000>>
BasePort == 40000

\* The device servers the database can advertise: (host, port).
Backends == {<<<<"a">>, 45678>>, <<<<"b", "b">>, 9000>>}

(***************************************************************************)
(* GIOP messages on the wire.  A frame is its 12-octet header followed by  *)
(* the payload blocks; a Reply payload is the 12-octet reply header        *)
(* followed by the body.                                                   *)
(***************************************************************************)
Request == 0
Reply == 1
NoException == 0
UserException == 1
ReplyHeaderLen == 12
BodyFill == 4

\* The IIOP profile as the codec exposes it: host with trailing NUL, port.
IorOf(b) == [host |-> PyBytes(Append(b[1], NUL)), port |-> PyInt(b[2])]

\* Encoded length of a profile field, and of the IORs of a body.
EncLen(v) == IF v[1] = "bytes" THEN Len(v[2]) ELSE 2
IorLen(ior) == EncLen(ior.host) + EncLen(ior.port)

RECURSIVE IorsLen(_)
IorsLen(iors) == IF iors = <<>> THEN 0
                 ELSE IorLen(Head(iors)) + IorsLen(Tail(iors))

ReplyHeaderBlock(st) == [kind |-> "reply_header", reply_status |-> st]
BodyBlock(iors) == [kind |-> "body", fill |-> BodyFill, iors |-> iors]

BlockLen(b) == IF b.kind = "reply_header" THEN ReplyHeaderLen
               ELSE b.fill + IorsLen(b.iors)

RECURSIVE DataLen(_)
DataLen(data) == IF data = <<>> THEN 0
                 ELSE BlockLen(Head(data)) + DataLen(Tail(data))

HeaderLen == 12

\* The octets of a header: octets is how many of the 12 the read returned.
RawHeader(octets, magic, mt, sz) ==
    [octets |-> octets, magic |-> magic, message_type |-> mt, size |-> sz]

Frame(magic, mt, data) ==
    [header |-> RawHeader(HeaderLen, magic, mt, DataLen(data)), data |-> data]

RequestFrame == Frame("GIOP", Request, <<>>)
\* A header with another magic.
BadFrame == Frame("XXXX", Request, <<>>)
\* A Reply with an exception status; its body happens to hold an IOR.
ExceptionReply ==
    Frame("GIOP", Reply,
          <<ReplyHeaderBlock(UserException),
            BodyBlock(<<IorOf(CHOOSE b \in Backends : TRUE)>>)>>)
PlainReply == Frame("GIOP", Reply,
                    <<ReplyHeaderBlock(NoException), BodyBlock(<<>>)>>)
IorReply(b) == Frame("GIOP", Reply,
                     <<ReplyHeaderBlock(NoException), BodyBlock(<<IorOf(b)>>)>>)

\* What a peer of an inspected connection may send, as whole messages (a
\* header that arrives cut short is a matter of the octets: FrameSpec).
Frames == {RequestFrame, BadFrame, ExceptionReply, PlainReply}
              \cup {IorReply(b) : b \in Backends}
\* What a peer of a forwarded connection may send (opaque to the gateway).
Chunks == {RequestFrame}

(***************************************************************************)
(* The giop codec.                                                         *)
(***************************************************************************)
\* giop.unpack_giop_header: fails on fewer than 12 octets and on a magic
\* that is not GIOP.
HeaderOK(raw_header) ==
    raw_header.octets = HeaderLen /\ raw_header.magic = "GIOP"
HeaderError(raw_header) ==
    IF raw_header.octets < HeaderLen THEN "TruncatedFrame"
    ELSE "MalformedHeader"
unpack_giop_header(raw_header) ==
    [message_type |-> raw_header.message_type, size |-> raw_header.size]

\* giop.pack_giop(header, data): the header's 12 octets followed by data.
pack_giop(header, data) ==
    [header |-> RawHeader(HeaderLen, "GIOP", header.message_type, header.size),
     data |-> data]

\* raw_data[:12], raw_data[12:]
raw_reply_header(raw_data) == Head(raw_data)
raw_body(raw_data) == raw_data[2]

unpack_reply_header(rrh) == [reply_status |-> rrh.reply_status]

\* giop.find_ior: <<the first IIOP profile of the body>>, <<>> if there is
\* none.
find_ior(body) == IF body.iors = <<>> THEN <<>> ELSE <<Head(body.iors)>>

\* giop.repack_ior: the body with the profile's host and port substituted.
repack_ior(body, ior) == [body EXCEPT !.iors = <<ior>> \o Tail(body.iors)]

(***************************************************************************)
(* State.                                                                  *)
(***************************************************************************)
VARIABLES
    forward_dict,   \* loop.forward_dict: key -> <<>> or (server, port, host)
    servers,        \* the dynamic listeners, in order of creation
    root,           \* the root listener: "open" or "closed"
    conn,           \* the accepted connections
    nevents,        \* what the peers have done so far, counted
    returned,       \* history: per key, the entries read back at line 75
    cause,          \* history: per listener, the IOR it was created for
    phase,          \* where run_server is: "run_forever", "close_servers",
                    \* "wait_servers" or "closed"
    close_list,     \* the listeners lines 115-116 have still to close
    reader          \* a StreamReader and the read_frame that reads it, octet
                    \* by octet

vars == <<forward_dict, servers, root, conn, nevents, returned, cause,
          phase, close_list, reader>>

\* ior.host[:-1].decode(), ior.port
KeyOf(ior) == <<SubSeq(ior.host[2], 1, Len(ior.host[2]) - 1), ior.port[2]>>
Keys == {KeyOf(IorOf(b)) : b \in Backends}

\* A pipe task and the StreamReader it reads: pc is the task's position, exc
\* the exception it ended with, buf/eof/err the reader's buffer, EOF mark and
\* pending exception, cur the frame held across start_server, sent what the
\* task has written, recv (history) what has arrived at the reader.
NoTask == [pc |-> "none", exc |-> "", buf |-> <<>>, eof |-> FALSE,
           err |-> FALSE, cur |-> <<>>, sent |-> <<>>, recv |-> <<>>]
NoConn == [listener |-> -1, handler |-> "none", target |-> <<>>,
           sock |-> [s \in {"cl", "up"} |-> "none"],
           task |-> [d \in Dirs |-> NoTask]]

\* The socket a direction reads from, and the one it writes to.
ReadSide(d) == IF d = "up" THEN "cl" ELSE "up"
WriteSide(d) == IF d = "up" THEN "up" ELSE "cl"
\* The direction whose reader sits on a socket.
ReaderOf(side) == IF side = "cl" THEN "up" ELSE "down"

\* The event loop runs inside loop.run_forever() (line 109) and inside
\* loop.run_until_complete(wait_servers) (line 119), and nowhere else.
LoopRuns == phase \in {"run_forever", "wait_servers"}

\* No stream is read octet by octet.
NoReader == [wire |-> <<>>, buffer |-> <<>>, eof |-> FALSE, pc |-> "none",
             raw_header |-> <<>>, frames |-> <<>>, exc |-> ""]

\* The gateway after lines 98-105: the root listener is bound and the
\* registry is empty.
Gateway ==
    /\ forward_dict = [k \in Keys |-> <<>>]
    /\ servers = <<>>
    /\ root = "open"
    /\ conn = [c \in Conns |-> NoConn]
    /\ nevents = 0
    /\ returned = [k \in Keys |-> {}]
    /\ cause = <<>>
    /\ phase = "run_forever"
    /\ close_list = <<>>

Init ==
    /\ Gateway
    /\ reader = NoReader

(***************************************************************************)
(* Streams.                                                                *)
(***************************************************************************)
\* Write that puts the data before what was written earlier.
WriteFirst(cr, d, data) == [cr EXCEPT !.task[d].sent = <<data>> \o @]

\* writer.write(data): sent is what the task has handed to its writer.
Write(cr, d, data) == [cr EXCEPT !.task[d].sent = Append(@, data)]

\* CloseWriter that closes the write side only (writer.write_eof()): the
\* socket stays open and its reader is fed nothing.
CloseWriterHalf(cr, d) == cr

\* writer.close(), on leaving `with closing(writer)`: the transport closes
\* the socket and connection_lost feeds EOF to the reader of that socket.
CloseWriter(cr, d) ==
    [cr EXCEPT !.sock[WriteSide(d)] = "closed",
               !.task[ReaderOf(WriteSide(d))].eof = TRUE]

\* The pipe coroutine of direction d returns.
Finish(cr, d) == [CloseWriter(cr, d) EXCEPT !.task[d].pc = "done"]

\* Raise without the `with closing(writer)` around the loop.
RaiseNoClose(cr, d, exc) ==
    [cr EXCEPT !.task[d].pc = "raised", !.task[d].exc = exc]

\* The pipe coroutine of direction d raises exc.
Raise(cr, d, exc) ==
    [CloseWriter(cr, d) EXCEPT !.task[d].pc = "raised", !.task[d].exc = exc]

(***************************************************************************)
(* read_frame, from the header to the registry lookup (lines 42-64).       *)
(***************************************************************************)
\* Classify without the test of the reply status (line 54).
ClassifyAnyStatus(raw_frame) ==
    LET header == unpack_giop_header(raw_frame.header)
        raw_data == raw_frame.data
    IN  IF ~HeaderOK(raw_frame.header) THEN "raise"
        ELSE IF header.message_type # Reply THEN "return"
        ELSE IF find_ior(raw_body(raw_data)) = <<>> THEN "return"
        ELSE "patch"

\* "raise": the header does not parse; "return": the frame is returned as
\* read; "patch": the frame holds an IOR.
Classify(raw_frame) ==
    LET header == unpack_giop_header(raw_frame.header)
        raw_data == raw_frame.data
    IN  IF ~HeaderOK(raw_frame.header) THEN "raise"
        ELSE IF header.message_type # Reply THEN "return"
        ELSE IF unpack_reply_header(raw_reply_header(raw_data)).reply_status
                    # NoException THEN "return"
        ELSE IF find_ior(raw_body(raw_data)) = <<>> THEN "return"
        ELSE "patch"

\* key = host, ior.port
FrameKey(raw_frame) == KeyOf(find_ior(raw_body(raw_frame.data))[1])

(***************************************************************************)
(* read_frame, from the registry read to the return (lines 75-81).         *)
(***************************************************************************)
Patch(raw_frame, value) ==
    LET header == unpack_giop_header(raw_frame.header)
        rrh == raw_reply_header(raw_frame.data)
        host == value[2]
        port == value[3]
        ior == [find_ior(raw_body(raw_frame.data))[1]
                    EXCEPT !.host = host, !.port = port]
        new_body == repack_ior(raw_body(raw_frame.data), ior)
        raw_data == <<rrh, new_body>>
        new_header == [header EXCEPT !.size = DataLen(raw_data)]
    IN  pack_giop(new_header, <<new_body>>)

(***************************************************************************)
(* The listeners.                                                          *)
(***************************************************************************)
\* Handler built from the host of the rewritten IOR.
HandlerLocal(host, port) == <<bind_address, port>>

\* handler = partial(forward, host=host, port=ior.port)
Handler(host, port) == <<host, port>>

\* asyncio.start_server(handler, loop.bind_address, 0): the OS assigns a
\* port no other listener has.
NewServer(handler) ==
    [handler |-> handler, host |-> bind_address,
     port |-> BasePort + Len(servers) + 1, closed |-> FALSE]

\* value = (server, getsockname()[1], getsockname()[0].encode() + b'\x00')
Value(id, server) ==
    <<id, PyInt(server.port), PyBytes(Append(server.host, NUL))>>

(***************************************************************************)
(* Actions.                                                                *)
(***************************************************************************)
\* A client connects to the root listener (l = 0) or to dynamic listener l;
\* the callback starts inspect() or forward(), which runs up to its
\* open_connection.  Connections are numbered in the order of their accept.
Accept(c, l) ==
    /\ LoopRuns
    /\ nevents < MaxEvents
    /\ conn[c].listener = -1
    /\ \A o \in 1..(c - 1) : conn[o].listener # -1
    /\ \/ l = 0 /\ root = "open"
       \/ l \in DOMAIN servers /\ ~servers[l].closed
    /\ conn' = [conn EXCEPT ![c] =
            [NoConn EXCEPT !.listener = l, !.handler = "connecting",
                           !.sock["cl"] = "open",
                           !.target = IF l = 0 THEN tango_host
                                      ELSE servers[l].handler]]
    /\ nevents' = nevents + 1
    /\ UNCHANGED <<forward_dict, servers, root, returned, cause,
                   phase, close_list, reader>>

\* open_connection succeeds: the two pipes are handed to asyncio.gather.
ConnectOK(c) ==
    /\ LoopRuns
    /\ conn[c].handler = "connecting"
    /\ conn' = [conn EXCEPT ![c].handler = "gather",
                            ![c].sock["up"] = "open",
                            ![c].task["up"].pc = "run",
                            ![c].task["down"].pc = "run"]
    /\ UNCHANGED <<forward_dict, servers, root, nevents, returned, cause,
                   phase, close_list, reader>>

\* ConnectFail where the exception also stops the listener of the connection.
ConnectFailStopsListener(c) ==
    LET l == conn[c].listener IN
    /\ LoopRuns
    /\ conn[c].handler = "connecting"
    /\ conn' = [conn EXCEPT ![c].handler = "failed"]
    /\ root' = IF l = 0 THEN "closed" ELSE root
    /\ servers' = IF l = 0 THEN servers
                  ELSE [servers EXCEPT ![l].closed = TRUE]
    /\ UNCHANGED <<forward_dict, nevents, returned, cause,
                   phase, close_list, reader>>

\* open_connection raises: the handler ends there.
ConnectFail(c) ==
    /\ LoopRuns
    /\ conn[c].handler = "connecting"
    /\ conn' = [conn EXCEPT ![c].handler = "failed"]
    /\ UNCHANGED <<forward_dict, servers, root, nevents, returned, cause,
                   phase, close_list, reader>>

\* The peer on the read side of direction d sends a message.
Deliver(c, d, f) ==
    /\ LoopRuns
    /\ nevents < MaxEvents
    /\ conn[c].sock[ReadSide(d)] = "open"
    /\ ~conn[c].task[d].eof
    /\ f \in (IF conn[c].listener = 0 THEN Frames ELSE Chunks)
    /\ conn' = [conn EXCEPT ![c].task[d].buf = Append(@, f),
                            ![c].task[d].recv = Append(@, f)]
    /\ nevents' = nevents + 1
    /\ UNCHANGED <<forward_dict, servers, root, returned, cause,
                   phase, close_list, reader>>

\* The peer on the read side of direction d closes its end.
PeerEOF(c, d) ==
    /\ LoopRuns
    /\ conn[c].sock[ReadSide(d)] = "open"
    /\ ~conn[c].task[d].eof
    /\ nevents < MaxEvents
    /\ conn' = [conn EXCEPT ![c].task[d].eof = TRUE]
    /\ nevents' = nevents + 1
    /\ UNCHANGED <<forward_dict, servers, root, returned, cause,
                   phase, close_list, reader>>

\* The socket on the read side of direction d fails (connection reset): the
\* transport closes it and connection_lost sets the reader's exception.
PeerReset(c, d) ==
    /\ LoopRuns
    /\ nevents < MaxEvents
    /\ conn[c].sock[ReadSide(d)] = "open"
    /\ conn' = [conn EXCEPT ![c].sock[ReadSide(d)] = "closed",
                            ![c].task[d].err = TRUE]
    /\ nevents' = nevents + 1
    /\ UNCHANGED <<forward_dict, servers, root, returned, cause,
                   phase, close_list, reader>>

\* forward_pipe: one turn of the loop.
ForwardStep(c, d) ==
    LET cr == conn[c] t == cr.task[d] IN
    /\ LoopRuns
    /\ cr.listener > 0
    /\ t.pc = "run"
    /\ t.buf # <<>> \/ t.eof \/ t.err
    /\ conn' = [conn EXCEPT ![c] =
            IF t.err THEN Raise(cr, d, "ConnectionResetError")
            ELSE IF t.buf = <<>> THEN Finish(cr, d)
            ELSE Write([cr EXCEPT !.task[d].buf = Tail(@)], d, Head(t.buf))]
    /\ UNCHANGED <<forward_dict, servers, root, nevents, returned, cause,
                   phase, close_list, reader>>

\* inspect_pipe: one turn of the loop, up to the write or to the suspension
\* in start_server.
InspectStep(c, d) ==
    LET cr == conn[c]
        t == cr.task[d]
        f == Head(t.buf)
        rest == [cr EXCEPT !.task[d].buf = Tail(@)]
    IN
    /\ LoopRuns
    /\ cr.listener = 0
    /\ t.pc = "run"
    /\ t.buf # <<>> \/ t.eof \/ t.err
    /\ IF t.err
       THEN /\ conn' = [conn EXCEPT ![c] =
                           Raise(cr, d, "ConnectionResetError")]
            /\ UNCHANGED returned
       ELSE IF t.buf = <<>>
       THEN /\ conn' = [conn EXCEPT ![c] = Finish(cr, d)]
            /\ UNCHANGED returned
       ELSE CASE Classify(f) = "raise" ->
                   /\ conn' = [conn EXCEPT ![c] =
                                  Raise(rest, d, HeaderError(f.header))]
                   /\ UNCHANGED returned
              [] Classify(f) = "return" ->
                   /\ conn' = [conn EXCEPT ![c] = Write(rest, d, f)]
                   /\ UNCHANGED returned
              [] Classify(f) = "patch" /\ forward_dict[FrameKey(f)] = <<>> ->
                   /\ conn' = [conn EXCEPT ![c] =
                                  [rest EXCEPT !.task[d].pc = "bind",
                                               !.task[d].cur = f]]
                   /\ UNCHANGED returned
              [] OTHER ->
                   /\ conn' = [conn EXCEPT ![c] =
                          Write(rest, d, Patch(f, forward_dict[FrameKey(f)]))]
                   /\ returned' = [returned EXCEPT ![FrameKey(f)] =
                                      @ \cup {forward_dict[FrameKey(f)]}]
    /\ UNCHANGED <<forward_dict, servers, root, nevents, cause,
                   phase, close_list, reader>>

\* start_server returns: lines 68-81, then the write of inspect_pipe.
BindOK(c, d) ==
    LET cr == conn[c]
        f == cr.task[d].cur
        key == FrameKey(f)
        server == NewServer(Handler(key[1], key[2]))
        value == Value(Len(servers) + 1, server)
    IN
    /\ LoopRuns
    /\ cr.task[d].pc = "bind"
    /\ servers' = Append(servers, server)
    /\ cause' = Append(cause, find_ior(raw_body(f.data))[1])
    /\ forward_dict' = [forward_dict EXCEPT ![key] = value]
    /\ returned' = [returned EXCEPT ![key] = @ \cup {value}]
    /\ conn' = [conn EXCEPT ![c] =
            Write([cr EXCEPT !.task[d].pc = "run", !.task[d].cur = <<>>],
                  d, Patch(f, value))]
    /\ UNCHANGED <<root, nevents,
                   phase, close_list, reader>>

\* start_server raises: the exception leaves read_frame and inspect_pipe.
BindFail(c, d) ==
    /\ LoopRuns
    /\ conn[c].task[d].pc = "bind"
    /\ conn' = [conn EXCEPT ![c] =
            Raise([conn[c] EXCEPT !.task[d].cur = <<>>], d, "OSError")]
    /\ UNCHANGED <<forward_dict, servers, root, nevents, returned, cause,
                   phase, close_list, reader>>

(***************************************************************************)
(* run_server, from the KeyboardInterrupt to loop.close() (lines 110-120). *)
(* Between run_forever and run_until_complete the event loop does not run: *)
(* no callback and no task runs while the listeners are being closed.      *)
(***************************************************************************)
\* [server for server, host, port in loop.forward_dict.values()]: the first
\* item of every entry of the registry.
RegisteredServers ==
    {forward_dict[k][1] : k \in {j \in Keys : forward_dict[j] # <<>>}}

\* A set of listeners as a list, in the order of their creation.
RECURSIVE InOrder(_)
InOrder(S) ==
    IF S = {} THEN <<>>
    ELSE LET m == CHOOSE x \in S : \A y \in S : x <= y
         IN  <<m>> \o InOrder(S \ {m})

\* Ctrl+C ends run_forever; lines 113-114 build the list of the listeners to
\* close: those of the registry, then the root listener (0).
Interrupt ==
    /\ phase = "run_forever"
    /\ phase' = "close_servers"
    /\ close_list' = Append(InOrder(RegisteredServers), 0)
    /\ UNCHANGED <<forward_dict, servers, root, conn, nevents, returned, cause,
                   reader>>

\* One turn of the loop of lines 115-116: server.close() stops the listener;
\* the connections it has accepted stay as they are.
CloseServer ==
    /\ phase = "close_servers"
    /\ close_list # <<>>
    /\ root' = IF Head(close_list) = 0 THEN "closed" ELSE root
    /\ servers' = IF Head(close_list) = 0 THEN servers
                  ELSE [servers EXCEPT ![Head(close_list)].closed = TRUE]
    /\ close_list' = Tail(close_list)
    /\ UNCHANGED <<forward_dict, conn, nevents, returned, cause, phase, reader>>

\* Lines 118-119: run_until_complete starts the event loop again.
WaitServers ==
    /\ phase = "close_servers"
    /\ close_list = <<>>
    /\ phase' = "wait_servers"
    /\ UNCHANGED <<forward_dict, servers, root, conn, nevents, returned, cause,
                   close_list, reader>>

\* Lines 119-120: wait_closed() of a listener that has been closed returns at
\* once (Server.wait_closed, asyncio up to Python 3.11), so wait_servers is
\* done after a few turns of the event loop, whatever else is ready in them;
\* run_until_complete returns and loop.close() ends the gateway.
LoopClose ==
    /\ phase = "wait_servers"
    /\ phase' = "closed"
    /\ UNCHANGED <<forward_dict, servers, root, conn, nevents, returned, cause,
                   close_list, reader>>

Next ==
    \/ \E c \in Conns, l \in 0..Len(servers) : Accept(c, l)
    \/ \E c \in Conns : ConnectOK(c)
    \/ \E c \in Conns : ConnectFail(c)
    \/ \E c \in Conns, d \in Dirs, f \in Frames : Deliver(c, d, f)
    \/ \E c \in Conns, d \in Dirs : PeerEOF(c, d)
    \/ \E c \in Conns, d \in Dirs : PeerReset(c, d)
    \/ \E c \in Conns, d \in Dirs : ForwardStep(c, d)
    \/ \E c \in Conns, d \in Dirs : InspectStep(c, d)
    \/ \E c \in Conns, d \in Dirs : BindOK(c, d)
    \/ \E c \in Conns, d \in Dirs : BindFail(c, d)

Spec == Init /\ [][Next]_vars

\* The gateway from its start to loop.close().
LifeNext ==
    \/ Next
    \/ Interrupt
    \/ CloseServer
    \/ WaitServers
    \/ LoopClose

LifeSpec == Init /\ [][LifeNext]_vars

\* A step of a pipe task of connection c: a turn of its loop, or the end of
\* its start_server.
TaskStepOf(c) ==
    \E d \in Dirs :
        \/ InspectStep(c, d)
        \/ ForwardStep(c, d)
        \/ BindOK(c, d)
        \/ BindFail(c, d)

TaskStep == \E c \in Conns : TaskStepOf(c)

\* The event loop does not stop while a task is ready to run.
Fairness == WF_vars(TaskStep)

FairSpec == Spec /\ Fairness

(***************************************************************************)
(* read_frame on a stream of octets (lines 31-50): one reader, fed by a    *)
(* peer whose octets arrive in chunks of any length.  The peer sends       *)
(* Requests, so that every frame leaves read_frame at line 50.             *)
(***************************************************************************)
\* The largest payload a header of the stream declares, and the number of
\* frames of a stream.
MaxSize == 2
MaxFrames == 2

\* The 12 octets of a header: "GIOP", version 1.0, flags 0 (big-endian),
\* message type, size.
WireHeader(mt, size) == <<71, 73, 79, 80, 1, 0, 0, mt, 0, 0, 0, size>>
WireFrame(size) == WireHeader(Request, size) \o [i \in 1..size |-> i]

RECURSIVE Wires(_)
Wires(n) ==
    IF n = 0 THEN {<<>>}
    ELSE {WireFrame(size) \o w : size \in 0..MaxSize, w \in Wires(n - 1)}

\* giop.unpack_giop_header on octets.
WireHeaderOK(raw_header) ==
    /\ Len(raw_header) = HeaderLen
    /\ SubSeq(raw_header, 1, 4) = <<71, 73, 79, 80>>
UnpackWireHeader(raw_header) ==
    [message_type |-> raw_header[8],
     size |-> ((raw_header[9] * 256 + raw_header[10]) * 256
                  + raw_header[11]) * 256 + raw_header[12]]

\* StreamReader.read(n) on a buffer that holds data, or at the end of the
\* stream: at most n octets, as many as the buffer holds.
ReadUpTo(buffer, n) ==
    SubSeq(buffer, 1, IF Len(buffer) < n THEN Len(buffer) ELSE n)
Rest(buffer, n) ==
    SubSeq(buffer, (IF Len(buffer) < n THEN Len(buffer) ELSE n) + 1,
           Len(buffer))

FrameInit ==
    /\ Gateway
    /\ \E n \in 1..MaxFrames : \E w \in Wires(n) :
           reader = [NoReader EXCEPT !.wire = w, !.pc = "header"]

\* The next n octets of the peer arrive (data_received, feed_data).
Arrive(n) ==
    /\ n \in 1..Len(reader.wire)
    /\ reader' = [reader EXCEPT
            !.buffer = @ \o SubSeq(reader.wire, 1, n),
            !.wire = SubSeq(@, n + 1, Len(@))]
    /\ UNCHANGED <<forward_dict, servers, root, conn, nevents, returned, cause,
                   phase, close_list>>

\* The peer closes after its last octet (feed_eof).
StreamEOF ==
    /\ reader.wire = <<>>
    /\ ~reader.eof
    /\ reader' = [reader EXCEPT !.eof = TRUE]
    /\ UNCHANGED <<forward_dict, servers, root, conn, nevents, returned, cause,
                   phase, close_list>>

\* Lines 31-45: the test of at_eof, reader.read(12), the test of an empty
\* header and giop.unpack_giop_header.
ReadHeader ==
    LET raw_header == ReadUpTo(reader.buffer, HeaderLen) IN
    /\ reader.pc = "header"
    /\ reader.buffer # <<>> \/ reader.eof
    /\ reader' =
         IF raw_header = <<>>
         THEN [reader EXCEPT !.pc = "done"]
         ELSE IF ~WireHeaderOK(raw_header)
         THEN [reader EXCEPT !.pc = "raised",
                             !.buffer = Rest(@, HeaderLen),
                             !.exc = IF Len(raw_header) < HeaderLen
                                     THEN "TruncatedFrame"
                                     ELSE "MalformedHeader"]
         ELSE [reader EXCEPT !.pc = "data",
                             !.buffer = Rest(@, HeaderLen),
                             !.raw_header = raw_header]
    /\ UNCHANGED <<forward_dict, servers, root, conn, nevents, returned, cause,
                   phase, close_list>>

\* Lines 47-50 and 35: reader.read(header.size), which returns at once when
\* the size is 0; raw_frame = raw_header + raw_data is returned and written.
ReadData ==
    LET header == UnpackWireHeader(reader.raw_header)
        raw_data == ReadUpTo(reader.buffer, header.size)
        raw_frame == reader.raw_header \o raw_data
    IN
    /\ reader.pc = "data"
    /\ header.size = 0 \/ reader.buffer # <<>> \/ reader.eof
    /\ header.message_type # Reply
    /\ reader' = [reader EXCEPT !.pc = "header",
                                !.buffer = Rest(@, header.size),
                                !.raw_header = <<>>,
                                !.frames = Append(@, raw_frame)]
    /\ UNCHANGED <<forward_dict, servers, root, conn, nevents, returned, cause,
                   phase, close_list>>

FrameNext ==
    \/ \E n \in 1..(MaxFrames * (HeaderLen + MaxSize)) : Arrive(n)
    \/ StreamEOF
    \/ ReadHeader
    \/ ReadData

FrameSpec == FrameInit /\ [][FrameNext]_vars

(***************************************************************************)
(* Vocabulary of the properties.                                           *)
(***************************************************************************)
\* The listeners whose handler relays to key k.
ListenersFor(k) == {i \in DOMAIN servers : servers[i].handler = k}

\* The fields of an entry (server, port, host) as lines 68-71 store them.
EntryServer(value) == value[1]
EntryPort(value) == value[2]
EntryHost(value) == value[3]

\* In this step the task of direction d of connection c takes a frame and
\* writes one: Taken is the frame it took, Written the one it wrote.
Taken(c, d) == IF conn[c].task[d].pc = "bind" THEN conn[c].task[d].cur
               ELSE Head(conn[c].task[d].buf)
Writes(c, d) ==
    Len(conn'[c].task[d].sent) = Len(conn[c].task[d].sent) + 1
Written(c, d) == conn'[c].task[d].sent[Len(conn'[c].task[d].sent)]

\* The first IOR of the body of a frame.
BodyIor(frame) ==
    LET i == CHOOSE i \in DOMAIN frame.data : frame.data[i].kind = "body"
    IN  Head(frame.data[i].iors)

RECURSIVE SeqToSet(_)
SeqToSet(q) == IF q = <<>> THEN {} ELSE {Head(q)} \cup SeqToSet(Tail(q))

(***************************************************************************)
(* C1: for every backend key K, however the tasks that process Replies     *)
(* naming K interleave, exactly one dynamic listener is bound for K and    *)
(* every task obtains an entry with the same local port.                   *)
(***************************************************************************)
C1_SingleListener ==
    \A k \in Keys :
        returned[k] # {} =>
            /\ Cardinality(ListenersFor(k)) = 1
            /\ Cardinality({EntryPort(v) : v \in returned[k]}) = 1

(***************************************************************************)
(* C2: the IOR of every rewritten Reply carries, as its host, the bind     *)
(* address with a trailing NUL and, as its port, the port of the dynamic   *)
(* listener of the registry entry of its key.                              *)
(***************************************************************************)
C2_RewrittenEndpoint ==
    [][\A c \in Conns, d \in Dirs :
          (/\ conn[c].listener = 0
           /\ Writes(c, d)
           /\ Classify(Taken(c, d)) = "patch")
          => LET entry == forward_dict'[FrameKey(Taken(c, d))]
                 ior == BodyIor(Written(c, d))
             IN  /\ ior.host = EntryHost(entry)
                 /\ ior.host = PyBytes(Append(bind_address, NUL))
                 /\ ior.port = EntryPort(entry)
                 /\ ior.port = PyInt(servers'[EntryServer(entry)].port)]_vars

(***************************************************************************)
(* C3: a frame whose header parses and whose message type is not Reply, or *)
(* which is a Reply with a status other than NoException, is written as it *)
(* was read, and the registry and the listeners stay as they are.          *)
(***************************************************************************)
PassThroughFrame(f) ==
    /\ f.header.octets = HeaderLen
    /\ f.header.magic = "GIOP"
    /\ \/ f.header.message_type # Reply
       \/ f.data[1].reply_status # NoException

\* The task of direction d of inspected connection c reads a frame in this
\* step.
ReadsFrame(c, d) ==
    /\ conn[c].listener = 0
    /\ conn[c].task[d].pc = "run"
    /\ ~conn[c].task[d].err
    /\ conn[c].task[d].buf # <<>>
    /\ conn'[c].task[d].buf = Tail(conn[c].task[d].buf)

C3_PassThrough ==
    [][\A c \in Conns, d \in Dirs :
          (ReadsFrame(c, d) /\ PassThroughFrame(Head(conn[c].task[d].buf)))
          => /\ conn'[c].task[d].sent =
                    Append(conn[c].task[d].sent, Head(conn[c].task[d].buf))
             /\ forward_dict' = forward_dict
             /\ servers' = servers]_vars

\* An inspected connection has relayed a Reply with an exception status and
\* another one a message that is not a Reply.
C3_Witness ==
    \E c \in Conns, d \in Dirs :
        /\ conn[c].listener = 0
        /\ ExceptionReply \in SeqToSet(conn[c].task[d].sent)
        /\ \E e \in Dirs : RequestFrame \in SeqToSet(conn[c].task[e].sent)

(***************************************************************************)
(* C4: once an entry has been read back for key K, every later read for K  *)
(* gives that same entry and no further listener is created for K.         *)
(***************************************************************************)
C4_StableEntry ==
    [][\A k \in Keys :
          returned[k] # {} =>
              /\ returned'[k] = returned[k]
              /\ ListenersFor(k)' = ListenersFor(k)]_vars

(***************************************************************************)
(* C5: every connection accepted on a dynamic listener is relayed to the   *)
(* backend (host, port) named in the IOR the listener was created for.     *)
(***************************************************************************)
C5_RelaysToItsBackend ==
    \A c \in Conns :
        conn[c].listener > 0 =>
            IorOf(conn[c].target) = cause[conn[c].listener]

\* A connection accepted on a dynamic listener has reached its backend and
\* relayed a chunk.
C5_Witness ==
    \E c \in Conns, d \in Dirs :
        /\ conn[c].listener > 0
        /\ conn[c].handler = "gather"
        /\ conn[c].task[d].sent # <<>>

(***************************************************************************)
(* C6: when the bind of the listener for a new key fails, the Reply that   *)
(* caused it is written unchanged, the registry gets no entry and the      *)
(* task goes on relaying.                                                  *)
(***************************************************************************)
C6_BindFailurePassesThrough ==
    [][\A c \in Conns, d \in Dirs :
          (/\ conn[c].task[d].pc = "bind"
           /\ conn'[c].task[d].pc # "bind"
           /\ servers' = servers)
          => /\ conn'[c].task[d].sent =
                    Append(conn[c].task[d].sent, conn[c].task[d].cur)
             /\ forward_dict' = forward_dict
             /\ conn'[c].task[d].pc = "run"
             /\ conn'[c].sock = conn[c].sock]_vars

(***************************************************************************)
(* C7: a client of a dynamic listener whose backend cannot be reached has  *)
(* its connection closed by the gateway.                                   *)
(***************************************************************************)
C7_BackendFailureClosesClient ==
    \A c \in Conns :
        (conn[c].listener > 0 /\ conn[c].handler = "failed")
        => conn[c].sock["cl"] = "closed"

(***************************************************************************)
(* C8: a client of the root listener for which the database cannot be      *)
(* reached has its connection closed by the gateway, and nothing is        *)
(* written on it.                                                          *)
(***************************************************************************)
C8_DbFailureClosesClient ==
    \A c \in Conns :
        (conn[c].listener = 0 /\ conn[c].handler = "failed")
        => /\ conn[c].sock["cl"] = "closed"
           /\ \A d \in Dirs : conn[c].task[d].sent = <<>>

(***************************************************************************)
(* C9: no malformed frame is ever written, and an inspected connection on  *)
(* which a header whose magic is not GIOP was read comes to rest only with *)
(* both sockets closed and both pipe tasks finished: until then one of its *)
(* tasks is ready to run, without waiting for a peer.                      *)
(***************************************************************************)
BadHeaderRead(c) ==
    /\ conn[c].listener = 0
    /\ \E d \in Dirs : conn[c].task[d].exc = "MalformedHeader"

Ended(c) ==
    /\ \A d \in Dirs : conn[c].task[d].pc \in {"done", "raised"}
    /\ conn[c].sock["cl"] = "closed"
    /\ conn[c].sock["up"] = "closed"

NoBadFrameWritten ==
    \A c \in Conns, d \in Dirs :
        conn[c].listener = 0 =>
            \A i \in DOMAIN conn[c].task[d].sent :
                conn[c].task[d].sent[i].header.magic = "GIOP"

EventuallyEnded == <>[](\A c \in Conns : BadHeaderRead(c) => Ended(c))

Fails(c) ==
    \/ conn[c].handler # "failed" /\ conn'[c].handler = "failed"
    \/ \E d \in Dirs : /\ conn[c].task[d].pc # "raised"
                       /\ conn'[c].task[d].pc = "raised"

C10_FailureIsConnectionScoped ==
    [][\A c \in Conns :
          Fails(c) => /\ forward_dict' = forward_dict
                      /\ servers' = servers
                      /\ root' = root
                      /\ \A o \in Conns \ {c} : conn'[o] = conn[o]]_vars

\* A connection has failed while a dynamic listener exists and another
\* connection has a pipe task running.
C10_Witness ==
    \E c \in Conns : \E o \in Conns \ {c} :
        /\ \/ conn[c].handler = "failed"
           \/ \E d \in Dirs : conn[c].task[d].pc = "raised"
        /\ servers # <<>>
        /\ \E d \in Dirs : conn[o].task[d].pc = "run"

(***************************************************************************)
(* C11: on shutdown the root listener is closed before any dynamic         *)
(* listener is closed: whenever a dynamic listener has been closed, the    *)
(* root listener is closed already.                                        *)
(***************************************************************************)
C11_RootClosedFirst ==
    \A i \in DOMAIN servers : servers[i].closed => root = "closed"

(***************************************************************************)
(* C12: when shutdown has completed, every dynamic listener that was ever  *)
(* bound is closed.                                                        *)
(***************************************************************************)
C12_AllListenersClosed ==
    phase = "closed" => \A i \in DOMAIN servers : servers[i].closed

(***************************************************************************)
(* C13: when the gateway has closed its event loop, no relay task is still *)
(* running: every pipe task that was started has ended and no handler is   *)
(* still waiting for its connection.                                       *)
(***************************************************************************)
C13_NoTaskLeftRunning ==
    phase = "closed" =>
        \A c \in Conns :
            /\ conn[c].handler # "connecting"
            /\ \A d \in Dirs : conn[c].task[d].pc \notin {"run", "bind"}

(***************************************************************************)
(* C14: however the octets of the stream are cut into chunks, every frame  *)
(* that read_frame returns is its 12 header octets followed by exactly as  *)
(* many payload octets as that header declares.                            *)
(***************************************************************************)
C14_FramesAreWhole ==
    \A i \in DOMAIN reader.frames :
        LET raw_frame == reader.frames[i] IN
        /\ Len(raw_frame) >= HeaderLen
        /\ Len(raw_frame) = HeaderLen
               + UnpackWireHeader(SubSeq(raw_frame, 1, HeaderLen)).size

(***************************************************************************)
(* C15: the frame written for a rewritten Reply is the GIOP header, whose  *)
(* size is the length of the payload written after it, then the reply      *)
(* header of the Reply as it was read, then the repacked body.             *)
(***************************************************************************)
C15_RepackedFrame ==
    [][\A c \in Conns, d \in Dirs :
          (/\ conn[c].listener = 0
           /\ Writes(c, d)
           /\ Classify(Taken(c, d)) = "patch")
          => LET read == Taken(c, d)
                 written == Written(c, d)
             IN  /\ written.header.size = DataLen(written.data)
                 /\ Len(written.data) = 2
                 /\ written.data[1] = raw_reply_header(read.data)
                 /\ written.data[2].kind = "body"
                 /\ written.data[2].fill = raw_body(read.data).fill]_vars

(***************************************************************************)
(* C16: when a pipe task ends on the end of its stream while the opposite  *)
(* direction is still running and its peer has not closed, no socket of    *)
(* the connection is closed and the opposite direction can go on           *)
(* receiving: the sockets are closed only once both directions have        *)
(* reached the end of their stream.                                        *)
(***************************************************************************)
Opposite(d) == IF d = "up" THEN "down" ELSE "up"

C16_DrainsBeforeClosing ==
    [][\A c \in Conns, d \in Dirs :
          (/\ conn[c].task[d].pc = "run"
           /\ conn'[c].task[d].pc = "done"
           /\ conn[c].task[Opposite(d)].pc \in {"run", "bind"}
           /\ ~conn[c].task[Opposite(d)].eof
           /\ ~conn[c].task[Opposite(d)].err)
          => /\ conn'[c].sock = conn[c].sock
             /\ ~conn'[c].task[Opposite(d)].eof]_vars

(***************************************************************************)
(* C17: once a pipe task of a connection has ended, by the end of its      *)
(* stream or by an exception, the connection comes to rest only with both  *)
(* tasks ended and both sockets closed: until then a task of it is ready   *)
(* to run, without waiting for a peer.                                     *)
(***************************************************************************)
OneEnded(c) == \E d \in Dirs : conn[c].task[d].pc \in {"done", "raised"}

EventuallyBothEnd == <>[](\A c \in Conns : OneEnded(c) => Ended(c))

ImageOf(c, read, written) ==
    \/ written = read
    \/ /\ conn[c].listener = 0
       /\ Classify(read) = "patch"
       /\ \E i \in DOMAIN servers : written = Patch(read, Value(i, servers[i]))

C19_ClientToDatabaseUnchanged ==
    [][\A c \in Conns :
          /\ (/\ ReadsFrame(c, "up")
              /\ HeaderOK(Head(conn[c].task["up"].buf).header))
              => /\ conn'[c].task["up"].sent =
                        Append(conn[c].task["up"].sent,
                               Head(conn[c].task["up"].buf))
                 /\ forward_dict' = forward_dict
                 /\ servers' = servers
          /\ conn[c].listener = 0 => conn'[c].task["up"].pc # "bind"]_vars

====
